---- MODULE Spec2Model ----
(***************************************************************************)
(* Model of runMediaUpdater.py: the main loop that enumerates and opens a  *)
(* Stream Deck, the polling loop runUpdaterTask, and the key callback that *)
(* the device's reader thread runs concurrently with it.                   *)
(*                                                                         *)
(* Strings of the program are sequences of character codes.  A media info  *)
(* dict is a record with a field "keys" naming the keys the dict has; the  *)
(* fields of absent keys hold a filler that no operator reads without      *)
(* testing "keys" first.  The value of 'thumbnailBytes' is one of the      *)
(* strings "None", "No Image" (the program's sentinel) or the name of a    *)
(* JPEG byte string ("X", "Y").                                            *)
(***************************************************************************)
EXTENDS Integers, Sequences, FiniteSets, TLC

\* ---------------------------------------------------------------- bounds
MaxTicks == 3
MaxPresses == 1
MaxOpens == 2
MaxLines == 5

\* ------------------------------------------------------ program constants
ALBUM_ART_KEY_NUMBER == 6
REFRESH_BUTTON_KEY_NUMBER == 5
WrapAt == 65

\* ------------------------------------------------------------ vocabulary
None == "None"
NoImage == "No Image"
Blank == "blank"
ArtBytes == {"X", "Y"}

EmptyStr == << >>
TitleA == <<65>>
TitleB == <<66, 233>>
Dashes == <<45, 45, 45>>
\* The sessions the provider reports in the model: <<title, thumbnail>>.
Sessions == {<<EmptyStr, "X">>, <<TitleA, None>>, <<TitleA, "X">>, <<TitleA, "Y">>,
             <<TitleB, "X">>}
ArtistName == <<97>>
AlbumName == <<98>>
NewLine == <<10>>

Threads == {"poll", "cb"}
Keys == {REFRESH_BUTTON_KEY_NUMBER, ALBUM_ART_KEY_NUMBER, 0}

\* ---------------------------------------------------------- media provider
\* What the WinRT calls of get_media_info can do: raise, report no current
\* session, or report a session with a title and a thumbnail that either
\* loads ("X", "Y") or fails to load ("None").
ProviderOutcomes ==
    {[kind |-> "raise", title |-> EmptyStr, thumb |-> None],
     [kind |-> "nosession", title |-> EmptyStr, thumb |-> None]}
    \cup {[kind |-> "session", title |-> ss[1], thumb |-> ss[2]] : ss \in Sessions}

\* Mutant: without a session the title is the empty string.
get_media_info_EmptyTitle(o) ==
    IF o.kind = "session"
    THEN [keys |-> {"title", "artist", "album_title", "thumbnailBytes"},
          title |-> o.title, artist |-> ArtistName, album_title |-> AlbumName,
          thumbnailBytes |-> o.thumb]
    ELSE [keys |-> {"title", "thumbnailBytes"},
          title |-> EmptyStr, artist |-> EmptyStr, album_title |-> EmptyStr,
          thumbnailBytes |-> NoImage]

get_media_info(o) ==
    IF o.kind = "session"
    THEN [keys |-> {"title", "artist", "album_title", "thumbnailBytes"},
          title |-> o.title, artist |-> ArtistName, album_title |-> AlbumName,
          thumbnailBytes |-> o.thumb]
    ELSE [keys |-> {"title", "thumbnailBytes"},
          title |-> Dashes, artist |-> EmptyStr, album_title |-> EmptyStr,
          thumbnailBytes |-> NoImage]

get_current_media_info(o) ==
    IF o.kind = "raise"
    THEN [keys |-> {"title"},
          title |-> EmptyStr, artist |-> EmptyStr, album_title |-> EmptyStr,
          thumbnailBytes |-> None]
    ELSE get_media_info(o)

Snapshots == {get_current_media_info(o) : o \in ProviderOutcomes}

\* ----------------------------------------------------------------- renderer
RECURSIVE StripNonAscii(_)
StripNonAscii(s) ==
    IF s = << >> THEN << >>
    ELSE IF Head(s) < 128 THEN <<Head(s)>> \o StripNonAscii(Tail(s))
    ELSE StripNonAscii(Tail(s))

IsSpace(c) == c \in {9, 10, 11, 12, 13, 32}

RECURSIVE LStrip(_)
LStrip(s) ==
    IF s # << >> /\ IsSpace(Head(s)) THEN LStrip(Tail(s)) ELSE s

RECURSIVE RStrip(_)
RStrip(s) ==
    IF s # << >> /\ IsSpace(s[Len(s)]) THEN RStrip(SubSeq(s, 1, Len(s) - 1)) ELSE s

Strip(s) == RStrip(LStrip(s))

Wrap(s) ==
    IF Len(s) > WrapAt
    THEN SubSeq(s, 1, WrapAt) \o NewLine \o SubSeq(s, WrapAt + 1, Len(s))
    ELSE s

\* Mutant: line 105 left out, the title is drawn with its non-ASCII characters.
BannerText_Raw(m) ==
    Wrap(Strip(m.title))
    \o (IF "artist" \in m.keys THEN NewLine \o m.artist ELSE << >>)
    \o (IF "album_title" \in m.keys THEN NewLine \o m.album_title ELSE << >>)

\* The text drawn on the touchscreen image by updateCurrentlyPlaying.
BannerText(m) ==
    Wrap(Strip(StripNonAscii(m.title)))
    \o (IF "artist" \in m.keys THEN NewLine \o m.artist ELSE << >>)
    \o (IF "album_title" \in m.keys THEN NewLine \o m.album_title ELSE << >>)

\* ---------------------------------------------------------- change detection
\* hash() of Python: deterministic within one process; collisions between the
\* few values of the model are not modelled.
PyHash(v) == "h:" \o v

hashAlbumArt(m) ==
    IF "thumbnailBytes" \notin m.keys THEN None
    ELSE IF m.thumbnailBytes = None THEN None
    ELSE PyHash(m.thumbnailBytes)

\* Mutant: the guard of line 95 left out.
TitleIsEmpty_Never(title) == FALSE

\* Line 95: the title on which updateCurrentlyPlaying returns without drawing.
TitleIsEmpty(title) == title = EmptyStr

\* Mutant: line 229 without the comparison against previousTitle.
TitleChanged_IgnorePrev(prevTitle, title) ==
    title # EmptyStr

\* Line 229.
TitleChanged(prevTitle, title) ==
    prevTitle # title /\ title # EmptyStr

\* Mutant: line 236 without the comparison against previousMediaHash.
ArtChanged_IgnorePrev(prevHash, h) ==
    h # None

\* Line 236.
ArtChanged(prevHash, h) ==
    prevHash # h /\ h # None

\* ---------------------------------------------------------------- favorites
Quote == <<34>>
Comma == <<44>>
HeaderLine == <<84, 105, 116, 108, 101, 44, 65, 114, 116, 105, 115, 116, 44,
                65, 108, 98, 117, 109, 10>>

FavoriteLine(title, artist, album) ==
    Quote \o title \o Quote \o Comma \o Quote \o artist \o Quote \o Comma
          \o Quote \o album \o Quote \o NewLine

\* The favorites.csv file after recordFavorite; f = [exists, lines].
recordFavorite(f, title, artist, album) ==
    LET favoriteLine == FavoriteLine(title, artist, album)
        lines == IF f.exists THEN f.lines ELSE <<HeaderLine>>
    IN  IF Len(lines) > 1 /\ lines[Len(lines)] = favoriteLine
        THEN [exists |-> TRUE, lines |-> lines]
        ELSE [exists |-> TRUE, lines |-> Append(lines, favoriteLine)]

\* -------------------------------------------------------------------- state
VARIABLES
    pc,                 \* position of the main/polling thread and of the reader thread
    info,               \* current_media_info of each thread
    lock,               \* owner of the deck's update lock ("with deck:")
    previousTitle,      \* locals of runUpdaterTask
    previousMediaHash,
    touchscreen,        \* text last drawn on the touchscreen region
    keyImage,           \* image last set on key ALBUM_ART_KEY_NUMBER
    favorites,          \* favorites.csv
    tickLog,            \* pushes the polling thread attempted in the current tick
    cbLog,              \* pushes the callback attempted for the current key event
    steady,             \* every tick of this run fetched the same snapshot, no push failed
    totText,            \* text pushes of the polling thread while steady
    totKey,             \* key pushes of the polling thread while steady
    ticks,              \* ticks begun, over all runs of runUpdaterTask
    fresh,              \* runUpdaterTask was entered and has not fetched yet
    presses,            \* presses of the refresh and album art keys delivered
    opens               \* times a deck was opened

vars == <<pc, info, lock, previousTitle, previousMediaHash, touchscreen, keyImage,
          favorites, tickLog, cbLog, steady, totText, totKey, ticks, fresh, presses,
          opens>>

NoInfo == get_current_media_info([kind |-> "raise", title |-> EmptyStr, thumb |-> None])

Init ==
    /\ pc = [t \in Threads |-> IF t = "poll" THEN "enumerate" ELSE "off"]
    /\ info = [t \in Threads |-> NoInfo]
    /\ lock = "free"
    /\ previousTitle = EmptyStr
    /\ previousMediaHash = None
    /\ touchscreen = << >>
    /\ keyImage = "unknown"
    /\ favorites = [exists |-> FALSE, lines |-> << >>]
    /\ tickLog = << >>
    /\ cbLog = << >>
    /\ steady = TRUE
    /\ totText = 0
    /\ totKey = 0
    /\ ticks = 0
    /\ fresh = FALSE
    /\ presses = 0
    /\ opens = 0

\* --------------------------------------------------------- shared machinery
\* Thread t attempted one device write; e = [region, img, ok].
LogPush(t, e) ==
    /\ tickLog' = IF t = "poll" THEN Append(tickLog, e) ELSE tickLog
    /\ cbLog' = IF t = "cb" THEN Append(cbLog, e) ELSE cbLog
    /\ steady' = IF t = "poll" THEN steady /\ e.ok ELSE steady
    /\ totText' = IF t # "poll" THEN totText
                  ELSE IF ~steady' THEN 0
                  ELSE IF e.region = "text" THEN totText + 1 ELSE totText
    /\ totKey' = IF t # "poll" THEN totKey
                 ELSE IF ~steady' THEN 0
                 ELSE IF e.region = "key" THEN totKey + 1 ELSE totKey

\* Where an exception that leaves the thread's function unhandled takes it:
\* the polling thread to the except clause of __main__ and on to the joins,
\* the reader thread out of its read loop.
RaiseTo(t) == IF t = "poll" THEN "join" ELSE "dead"

\* Return sites of the three display functions.
AfterUCP(t) == "blank"

\* Mutant: the callback returns after blankAlbumArt, line 182 left out.
AfterBlank_SkipArt(t, at) ==
    IF t = "cb" THEN "return"
    ELSE IF at = "blank_locked" THEN "reset" ELSE "sethash"

AfterBlank(t, at) ==
    IF at = "blank_locked" THEN (IF t = "poll" THEN "reset" ELSE "uaa")
    ELSE (IF t = "poll" THEN "sethash" ELSE "return")
AfterUAA(t) == IF t = "poll" THEN "sethash" ELSE "return"

ghosts == <<tickLog, cbLog, steady, totText, totKey>>

\* current_media_info is a local of key_change_callback and of runUpdaterTask:
\* it is gone once an exception has taken thread t out of that function to
\* position p.
Locals(t, p) ==
    info' = IF p \in {"dead", "join"} THEN [info EXCEPT ![t] = NoInfo] ELSE info

\* Mutant: the with statement is entered without waiting for the lock.
Acquire_NoWait(t) == lock' = t

\* "with deck:" takes the device's lock, waiting while the other thread
\* holds it.
Acquire(t) ==
    /\ lock = "free"
    /\ lock' = t

\* ------------------------------------------------- updateCurrentlyPlaying
UCP_Enter(t) ==
    /\ pc[t] = "ucp"
    /\ IF TitleIsEmpty(info[t].title)
       THEN /\ pc' = [pc EXCEPT ![t] = AfterUCP(t)]
            /\ lock' = lock
       ELSE /\ Acquire(t)
            /\ pc' = [pc EXCEPT ![t] = "ucp_locked"]
    /\ UNCHANGED <<info, previousTitle, previousMediaHash, touchscreen, keyImage,
                   favorites, ghosts, ticks, fresh, presses, opens>>

UCP_Push(t) ==
    /\ pc[t] = "ucp_locked"
    /\ \E ok \in BOOLEAN :
         /\ touchscreen' = IF ok THEN BannerText(info[t]) ELSE touchscreen
         /\ LogPush(t, [region |-> "text", img |-> "text", ok |-> ok])
    /\ lock' = "free"
    /\ pc' = [pc EXCEPT ![t] = AfterUCP(t)]
    /\ UNCHANGED <<info, previousTitle, previousMediaHash, keyImage, favorites,
                   ticks, fresh, presses, opens>>

\* ------------------------------------------------------------ blankAlbumArt
Blank_Enter(t) ==
    /\ pc[t] \in {"blank", "uaa_blank"}
    /\ Acquire(t)
    /\ pc' = [pc EXCEPT ![t] = IF pc[t] = "blank" THEN "blank_locked" ELSE "uaa_blank_locked"]
    /\ UNCHANGED <<info, previousTitle, previousMediaHash, touchscreen, keyImage,
                   favorites, ghosts, ticks, fresh, presses, opens>>

Blank_Push(t) ==
    /\ pc[t] \in {"blank_locked", "uaa_blank_locked"}
    /\ \E ok \in BOOLEAN :
         /\ keyImage' = IF ok THEN Blank ELSE keyImage
         /\ pc' = [pc EXCEPT ![t] = IF ok THEN AfterBlank(t, pc[t]) ELSE RaiseTo(t)]
         /\ Locals(t, IF ok THEN AfterBlank(t, pc[t]) ELSE RaiseTo(t))
         /\ LogPush(t, [region |-> "key", img |-> Blank, ok |-> ok])
    /\ lock' = "free"
    /\ UNCHANGED <<previousTitle, previousMediaHash, touchscreen, favorites,
                   ticks, fresh, presses, opens>>

\* ----------------------------------------------------------- updateAlbumArt
UAA_Enter(t) ==
    /\ pc[t] = "uaa"
    /\ LET m == info[t] IN
       IF "thumbnailBytes" \notin m.keys \/ m.thumbnailBytes = None
       THEN /\ pc' = [pc EXCEPT ![t] = AfterUAA(t)]
            /\ Locals(t, AfterUAA(t))
            /\ lock' = lock
       ELSE IF m.thumbnailBytes = NoImage
       THEN /\ pc' = [pc EXCEPT ![t] = "uaa_blank"]
            /\ UNCHANGED <<info, lock>>
       ELSE /\ Acquire(t)
            /\ pc' = [pc EXCEPT ![t] = "uaa_locked"]
            /\ UNCHANGED info
    /\ UNCHANGED <<previousTitle, previousMediaHash, touchscreen, keyImage,
                   favorites, ghosts, ticks, fresh, presses, opens>>

UAA_Push(t) ==
    /\ pc[t] = "uaa_locked"
    /\ \E ok \in BOOLEAN :
         /\ keyImage' = IF ok THEN info[t].thumbnailBytes ELSE keyImage
         /\ pc' = [pc EXCEPT ![t] = IF ok THEN AfterUAA(t) ELSE "uaa_except"]
         /\ Locals(t, IF ok THEN AfterUAA(t) ELSE "uaa_except")
         /\ lock' = IF ok THEN "free" ELSE lock
         /\ LogPush(t, [region |-> "key", img |-> info[t].thumbnailBytes, ok |-> ok])
    /\ UNCHANGED <<previousTitle, previousMediaHash, touchscreen, favorites,
                   ticks, fresh, presses, opens>>

\* Mutant: the except clause pushes the failed artwork again.
FallbackImage_SameArt(image) == image

\* Lines 155-158: the image the except clause pushes, a black 120x120 JPEG
\* whatever the artwork was.
FallbackImage(image) == Blank

UAA_Fallback(t) ==
    /\ pc[t] = "uaa_except"
    /\ \E ok \in BOOLEAN :
         /\ keyImage' = IF ok THEN FallbackImage(info[t].thumbnailBytes) ELSE keyImage
         /\ pc' = [pc EXCEPT ![t] = IF ok THEN AfterUAA(t) ELSE RaiseTo(t)]
         /\ Locals(t, IF ok THEN AfterUAA(t) ELSE RaiseTo(t))
         /\ LogPush(t, [region |-> "key", img |-> FallbackImage(info[t].thumbnailBytes),
                        ok |-> ok])
    /\ lock' = "free"
    /\ UNCHANGED <<previousTitle, previousMediaHash, touchscreen, favorites,
                   ticks, fresh, presses, opens>>

\* ------------------------------------------------------------------ __main__
\* Lines 242-262: enumerate finds no Stream Deck + and the loop sleeps and
\* retries, or deck.open() raises outside any try, or the deck is opened, the
\* callback registered (the reader thread starts) and runUpdaterTask entered.
EnumerateNone ==
    /\ pc["poll"] = "enumerate"
    /\ UNCHANGED vars

OpenFails ==
    /\ pc["poll"] = "enumerate"
    /\ opens < MaxOpens
    /\ pc' = [pc EXCEPT !["poll"] = "crashed"]
    /\ opens' = opens + 1
    /\ UNCHANGED <<info, lock, previousTitle, previousMediaHash, touchscreen, keyImage,
                   favorites, ghosts, ticks, fresh, presses>>

\* Mutant: runUpdaterTask goes on with the title and fingerprint of the
\* session before.
OpenDeck_KeepState ==
    /\ pc["poll"] = "enumerate"
    /\ opens < MaxOpens
    /\ opens' = opens + 1
    /\ pc' = [poll |-> "sleep", cb |-> "idle"]
    /\ fresh' = TRUE
    /\ tickLog' = << >>
    /\ steady' = TRUE
    /\ totText' = 0
    /\ totKey' = 0
    /\ UNCHANGED <<info, lock, previousTitle, previousMediaHash, touchscreen, keyImage,
                   favorites, cbLog, ticks, presses>>

OpenDeck ==
    /\ pc["poll"] = "enumerate"
    /\ opens < MaxOpens
    /\ opens' = opens + 1
    /\ pc' = [poll |-> "sleep", cb |-> "idle"]
    /\ previousTitle' = EmptyStr
    /\ previousMediaHash' = None
    /\ fresh' = TRUE
    /\ tickLog' = << >>
    /\ steady' = TRUE
    /\ totText' = 0
    /\ totKey' = 0
    /\ UNCHANGED <<info, lock, touchscreen, keyImage, favorites, cbLog, ticks, presses>>

\* Lines 266-270: join every thread; joining the main thread itself raises the
\* RuntimeError that is caught, joining the reader thread returns once that
\* thread has ended.
Join ==
    /\ pc["poll"] = "join"
    /\ pc["cb"] \in {"off", "dead"}
    /\ pc' = [pc EXCEPT !["poll"] = "enumerate"]
    /\ UNCHANGED <<info, lock, previousTitle, previousMediaHash, touchscreen, keyImage,
                   favorites, ghosts, ticks, fresh, presses, opens>>

\* ------------------------------------------------------------ runUpdaterTask
\* Lines 235-236: where the loop goes with stored fingerprint prevHash and
\* snapshot m, into updateAlbumArt or back to the sleep of line 226.  Both
\* are locals of the polling thread.
HashBranch(prevHash, m) ==
    IF ArtChanged(prevHash, hashAlbumArt(m)) THEN "uaa" ELSE "sleep"

\* Lines 226-229, and lines 235-236 when the title block is skipped.
Fetch ==
    /\ pc["poll"] = "sleep"
    /\ ticks < MaxTicks
    /\ \E o \in ProviderOutcomes :
         LET m == get_current_media_info(o)
             st == steady /\ (fresh \/ m = info["poll"])
         IN  /\ info' = [info EXCEPT !["poll"] = m]
             /\ steady' = st
             /\ totText' = IF st THEN totText ELSE 0
             /\ totKey' = IF st THEN totKey ELSE 0
             /\ pc' = [pc EXCEPT !["poll"] =
                         IF TitleChanged(previousTitle, m.title) THEN "ucp"
                         ELSE HashBranch(previousMediaHash, m)]
    /\ ticks' = ticks + 1
    /\ fresh' = FALSE
    /\ tickLog' = << >>
    /\ UNCHANGED <<lock, previousTitle, previousMediaHash, touchscreen, keyImage,
                   favorites, cbLog, presses, opens>>

\* Lines 232-236.
Reset ==
    /\ pc["poll"] = "reset"
    /\ previousMediaHash' = None
    /\ previousTitle' = info["poll"].title
    /\ pc' = [pc EXCEPT !["poll"] = HashBranch(None, info["poll"])]
    /\ UNCHANGED <<info, lock, touchscreen, keyImage, favorites, ghosts, ticks,
                   fresh, presses, opens>>

\* Line 238.
SetHash ==
    /\ pc["poll"] = "sethash"
    /\ previousMediaHash' = hashAlbumArt(info["poll"])
    /\ pc' = [pc EXCEPT !["poll"] = "sleep"]
    /\ UNCHANGED <<info, lock, previousTitle, touchscreen, keyImage, favorites, ghosts,
                   ticks, fresh, presses, opens>>

\* ------------------------------------------------------- key_change_callback
\* Lines 178-179: a press of the refresh key fetches a snapshot and goes on
\* to the three display calls of lines 180-182.
RefreshPressed ==
    /\ pc["cb"] = "idle"
    /\ presses < MaxPresses
    /\ \E o \in ProviderOutcomes :
         info' = [info EXCEPT !["cb"] = get_current_media_info(o)]
    /\ pc' = [pc EXCEPT !["cb"] = "ucp"]
    /\ cbLog' = << >>
    /\ presses' = presses + 1
    /\ UNCHANGED <<lock, previousTitle, previousMediaHash, touchscreen, keyImage,
                   favorites, tickLog, steady, totText, totKey, ticks, fresh, opens>>

\* Lines 184-189: a press of the album art key records the favorite; a
\* snapshot without 'artist' or 'album_title' raises KeyError into the
\* reader thread.
FavoriteKey ==
    /\ pc["cb"] = "idle"
    /\ \E o \in ProviderOutcomes :
         LET m == get_current_media_info(o) IN
         /\ IF {"artist", "album_title"} \subseteq m.keys
            THEN /\ favorites' = recordFavorite(favorites, m.title, m.artist, m.album_title)
                 /\ pc' = pc
            ELSE /\ favorites' = favorites
                 /\ pc' = [pc EXCEPT !["cb"] = "dead"]
    /\ UNCHANGED <<info, lock, previousTitle, previousMediaHash, touchscreen, keyImage,
                   ghosts, ticks, fresh, opens>>

FavoritePressed ==
    /\ presses < MaxPresses
    /\ presses' = presses + 1
    /\ FavoriteKey

\* Line 184 after a refresh: the second condition is false and the callback
\* returns to the read loop.
RefreshReturn ==
    /\ pc["cb"] = "return"
    /\ pc' = [pc EXCEPT !["cb"] = "idle"]
    /\ info' = [info EXCEPT !["cb"] = NoInfo]
    /\ cbLog' = << >>
    /\ UNCHANGED <<lock, previousTitle, previousMediaHash, touchscreen, keyImage,
                   favorites, tickLog, steady, totText, totKey, ticks, fresh, presses,
                   opens>>

\* Any other key event (a release, or another key): neither branch is taken.
OtherKeyEvent ==
    /\ pc["cb"] = "idle"
    /\ \E key \in Keys, key_state \in BOOLEAN :
         ~(key_state /\ key \in {REFRESH_BUTTON_KEY_NUMBER, ALBUM_ART_KEY_NUMBER})
    /\ UNCHANGED vars

\* The reader thread ends when reading the device fails (device unplugged).
ReaderEnds ==
    /\ pc["cb"] = "idle"
    /\ pc' = [pc EXCEPT !["cb"] = "dead"]
    /\ UNCHANGED <<info, lock, previousTitle, previousMediaHash, touchscreen, keyImage,
                   favorites, ghosts, ticks, fresh, presses, opens>>

\* ------------------------------------------------------------ specification
Next ==
    \/ EnumerateNone
    \/ OpenFails
    \/ OpenDeck
    \/ Join
    \/ Fetch
    \/ Reset
    \/ SetHash
    \/ RefreshPressed
    \/ RefreshReturn
    \/ FavoritePressed
    \/ OtherKeyEvent
    \/ ReaderEnds
    \/ \E t \in Threads :
         \/ UCP_Enter(t)
         \/ UCP_Push(t)
         \/ Blank_Enter(t)
         \/ Blank_Push(t)
         \/ UAA_Enter(t)
         \/ UAA_Push(t)
         \/ UAA_Fallback(t)

Spec == Init /\ [][Next]_vars

\* The steps each thread takes on its own once it is scheduled.  Whether a
\* deck is found, a key pressed or the reader's read of the device fails is
\* up to the environment.
PollStep ==
    \/ Join
    \/ Fetch
    \/ Reset
    \/ SetHash
    \/ UCP_Enter("poll") \/ UCP_Push("poll")
    \/ Blank_Enter("poll") \/ Blank_Push("poll")
    \/ UAA_Enter("poll") \/ UAA_Push("poll") \/ UAA_Fallback("poll")

CbStep ==
    \/ RefreshReturn
    \/ UCP_Enter("cb") \/ UCP_Push("cb")
    \/ Blank_Enter("cb") \/ Blank_Push("cb")
    \/ UAA_Enter("cb") \/ UAA_Push("cb") \/ UAA_Fallback("cb")

\* Both threads are scheduled again and again.
FairSpec == Spec /\ WF_vars(PollStep) /\ WF_vars(CbStep)

\* -------------------------------------------------------- the favorites file
\* The album art key pressed again and again while a deck is open, over every
\* favorites.csv the program can find when it starts: none, an empty one, one
\* holding the header only.  The file stays within MaxLines lines.
FavFiles ==
    {[exists |-> FALSE, lines |-> << >>],
     [exists |-> TRUE, lines |-> << >>],
     [exists |-> TRUE, lines |-> <<HeaderLine>>]}

InitFav ==
    /\ pc = [poll |-> "sleep", cb |-> "idle"]
    /\ info = [t \in Threads |-> NoInfo]
    /\ lock = "free"
    /\ previousTitle = EmptyStr
    /\ previousMediaHash = None
    /\ touchscreen = << >>
    /\ keyImage = "unknown"
    /\ favorites \in FavFiles
    /\ tickLog = << >>
    /\ cbLog = << >>
    /\ steady = TRUE
    /\ totText = 0
    /\ totKey = 0
    /\ ticks = 0
    /\ fresh = TRUE
    /\ presses = 0
    /\ opens = 1

FavoritePressedAgain ==
    /\ Len(favorites.lines) < MaxLines
    /\ FavoriteKey
    /\ UNCHANGED presses

NextFav == FavoritePressedAgain

SpecFav == InitFav /\ [][NextFav]_vars

\* =================================================================== claims
\* Helpers of the formulas.  They spell the program's conditions out instead
\* of using the operators of the model.
PollPushed(r) ==
    /\ Len(tickLog') = Len(tickLog) + 1
    /\ tickLog'[Len(tickLog')].region = r

CbPushed(r) ==
    /\ Len(cbLog') = Len(cbLog) + 1
    /\ cbLog'[Len(cbLog')].region = r

HasPush(log, r) == \E i \in DOMAIN log : log[i].region = r

\* The banner of each title of the model, written out.
ExpectedBanner(title) ==
    CASE title = TitleA -> <<65, 10, 97, 10, 98>>
      [] title = TitleB -> <<66, 10, 97, 10, 98>>
      [] title = Dashes -> <<45, 45, 45>>
      [] OTHER -> <<10, 97, 10, 98>>

\* The fingerprint line 235 computes, written out.
Fingerprint(m) ==
    IF "thumbnailBytes" \in m.keys /\ m.thumbnailBytes # "None"
    THEN "h:" \o m.thumbnailBytes ELSE "None"

\* The callback returns from a refresh press.
CbReturns ==
    /\ pc["cb"] = "return"
    /\ pc'["cb"] = "idle"

\* The polling thread is between two ticks, at least one tick done.
TickDone == pc["poll"] = "sleep" /\ ~fresh

\* ----------------------------------------------------------------------- C1
\* C1 (as claimed): after N >= 1 ticks that all fetched the same snapshot and
\* in which every push succeeded, the polling loop has made exactly one text
\* push and exactly one push to the artwork key in total.
C1_ExactlyOneEach ==
    (TickDone /\ steady) => (totText = 1 /\ totKey = 1)

\* C1 (amended): after N >= 1 such ticks the polling loop has made one text
\* push if the title is non-empty and none otherwise, and to the artwork key
\* one blank push if the title is non-empty plus one artwork push if the
\* snapshot's fingerprint is not None; ticks 2..N add nothing.
C1_NoRedundantPush ==
    (TickDone /\ steady) =>
        /\ totText = (IF info["poll"].title # << >> THEN 1 ELSE 0)
        /\ totKey = (IF info["poll"].title # << >> THEN 1 ELSE 0)
                    + (IF Fingerprint(info["poll"]) # "None" THEN 1 ELSE 0)

C1_Witness ==
    /\ TickDone /\ steady /\ opens = 1 /\ ticks >= 3
    /\ totText = 1 /\ totKey = 2

\* ----------------------------------------------------------------------- C2
\* C2: previousMediaHash gets a new non-None value only in a tick in which no
\* push to the artwork key failed.
C2_HashOnlyAfterSuccess ==
    [][(previousMediaHash' # previousMediaHash /\ previousMediaHash' # "None")
        => \A i \in DOMAIN tickLog : tickLog[i].region = "key" => tickLog[i].ok]_vars

\* ----------------------------------------------------------------------- C3
\* C3: a tick whose text push failed leaves previousTitle unchanged.
C3_TitleKeptOnFailure ==
    [][(pc["poll"] = "reset"
        /\ \E i \in DOMAIN tickLog : tickLog[i].region = "text" /\ ~tickLog[i].ok)
        => previousTitle' = previousTitle]_vars

\* ----------------------------------------------------------------------- C4
\* C4 (as claimed): the polling thread pushes nothing to the artwork key while
\* the title differs from previousTitle and the fingerprint equals the stored
\* fingerprint of an artwork, and nothing to the text region while the
\* fingerprint differs and the title equals previousTitle.
C4_Independent ==
    [][/\ (PollPushed("key") /\ tickLog'[Len(tickLog')].ok) =>
            ~(info["poll"].title # previousTitle
              /\ previousMediaHash # "None"
              /\ Fingerprint(info["poll"]) = previousMediaHash)
       /\ PollPushed("text") =>
            ~(info["poll"].title = previousTitle
              /\ Fingerprint(info["poll"]) # previousMediaHash)]_vars

\* C4 (amended): the polling thread pushes to the text region only when the
\* title is non-empty and differs from previousTitle, whatever the fingerprint;
\* but the artwork key is not independent of the title: every tick that pushed
\* the text and went on has pushed the blank placeholder to the key next, and
\* a push to the key happens either there (line 231) or when the fingerprint
\* is not None and differs from previousMediaHash, which a title change has
\* reset to None.
C4_TextIndependentOnly ==
    /\ [][PollPushed("text") =>
            (info["poll"].title # << >> /\ info["poll"].title # previousTitle)]_vars
    /\ [][PollPushed("key") =>
            \/ (pc["poll"] = "blank_locked" /\ info["poll"].title # previousTitle)
            \/ (Fingerprint(info["poll"]) # "None"
                /\ Fingerprint(info["poll"]) # previousMediaHash)]_vars
    /\ []((pc["poll"] \in {"reset", "uaa", "sethash", "sleep"} /\ HasPush(tickLog, "text"))
            => (Len(tickLog) >= 2 /\ tickLog[2] = [region |-> "key", img |-> "blank", ok |-> TRUE]))

\* A title change with the fingerprint equal to the stored one has pushed to
\* the key.
C4_Witness ==
    /\ pc["poll"] = "reset"
    /\ previousMediaHash # "None"
    /\ Fingerprint(info["poll"]) = previousMediaHash
    /\ info["poll"].title # previousTitle
    /\ HasPush(tickLog, "key")

\* ----------------------------------------------------------------------- C5
\* C5: a tick that fetched a session without artwork, with the title unchanged
\* and the artwork X rendered before, has pushed the placeholder to the key.
C5_NoArtworkIsAChange ==
    (/\ TickDone
     /\ "thumbnailBytes" \in info["poll"].keys
     /\ info["poll"].thumbnailBytes = "None"
     /\ info["poll"].title # << >>
     /\ previousTitle = info["poll"].title
     /\ previousMediaHash = "h:X")
    => \E i \in DOMAIN tickLog : tickLog[i].region = "key" /\ tickLog[i].img = "blank"

\* ----------------------------------------------------------------------- C6
\* C6: the polling thread pushes the text in a tick if and only if the tick's
\* title is non-empty and differs from previousTitle, and a successful push
\* shows the banner of that title.
C6_TextPushIff ==
    /\ [][PollPushed("text") =>
            /\ info["poll"].title # << >>
            /\ info["poll"].title # previousTitle
            /\ tickLog'[Len(tickLog')].ok =>
                 touchscreen' = ExpectedBanner(info["poll"].title)]_vars
    /\ []((/\ \/ pc["poll"] \in {"uaa", "uaa_locked", "uaa_except", "uaa_blank",
                                  "uaa_blank_locked", "sethash"}
               \/ TickDone
            /\ ~HasPush(tickLog, "text"))
            => (info["poll"].title = << >> \/ info["poll"].title = previousTitle))

\* A later tick has pushed the banner of title B.
C6_Witness ==
    /\ pc["poll"] = "uaa" /\ ticks >= 3 /\ opens = 1
    /\ previousTitle = TitleB
    /\ tickLog = <<[region |-> "text", img |-> "text", ok |-> TRUE],
                   [region |-> "key", img |-> "blank", ok |-> TRUE]>>
    /\ touchscreen = <<66, 10, 97, 10, 98>>

\* ----------------------------------------------------------------------- C7
\* C7: no thread pushes to the text region while the snapshot it holds has an
\* empty title, and the polling loop does not change previousTitle in a tick
\* whose title is empty.
C7_EmptyTitleNoText ==
    [][/\ PollPushed("text") => info["poll"].title # << >>
       /\ CbPushed("text") => info["cb"].title # << >>
       /\ (pc["poll"] \notin {"enumerate", "join", "crashed"} /\ info["poll"].title = << >>)
            => previousTitle' = previousTitle]_vars

\* The callback has passed updateCurrentlyPlaying with an empty title.
C7_Witness ==
    /\ pc["cb"] = "blank"
    /\ info["cb"].title = << >>
    /\ cbLog = << >>
    /\ previousTitle # << >>

\* ----------------------------------------------------------------------- C8
\* C8 (as claimed): a refresh press that returns has pushed to the text
\* region and to the artwork key.
C8_RefreshPushesBoth ==
    [][CbReturns => (HasPush(cbLog, "text") /\ HasPush(cbLog, "key"))]_vars

\* What a returning refresh press has attempted for snapshot m.
RefreshLogOk(m, log) ==
    LET k == IF m.title # << >> THEN 1 ELSE 0
        art == IF "thumbnailBytes" \in m.keys THEN m.thumbnailBytes ELSE "None"
    IN  /\ Len(log) >= k + 1
        /\ k = 1 => log[1].region = "text"
        /\ log[k + 1] = [region |-> "key", img |-> "blank", ok |-> TRUE]
        /\ CASE art \in {"X", "Y"} ->
                  /\ Len(log) >= k + 2
                  /\ log[k + 2].region = "key" /\ log[k + 2].img = art
                  /\ IF log[k + 2].ok THEN Len(log) = k + 2
                     ELSE /\ Len(log) = k + 3
                          /\ log[k + 3] = [region |-> "key", img |-> "blank", ok |-> TRUE]
             [] art = "No Image" ->
                  /\ Len(log) = k + 2
                  /\ log[k + 2] = [region |-> "key", img |-> "blank", ok |-> TRUE]
             [] OTHER -> Len(log) = k + 1

\* C8 (amended): a refresh press never consults or changes previousTitle and
\* previousMediaHash nor moves the polling thread; it pushes the banner of the
\* fetched snapshot iff its title is non-empty, then the blank placeholder to
\* the artwork key, and when that push succeeded the snapshot's artwork if it
\* has any (another placeholder for "No Image", and a placeholder after a
\* failed artwork push).
C8_RefreshPushes ==
    /\ [][CbReturns => RefreshLogOk(info["cb"], cbLog)]_vars
    /\ [][(CbPushed("text") /\ cbLog'[Len(cbLog')].ok)
            => touchscreen' = ExpectedBanner(info["cb"].title)]_vars
    /\ [][cbLog' # cbLog =>
            /\ pc'["poll"] = pc["poll"]
            /\ previousTitle' = previousTitle
            /\ previousMediaHash' = previousMediaHash]_vars

\* A refresh has pushed the artwork whose fingerprint the loop already stored.
C8_Witness ==
    /\ pc["cb"] = "return" /\ pc["poll"] = "sleep"
    /\ Len(cbLog) = 3
    /\ cbLog[1].region = "text" /\ cbLog[1].ok
    /\ cbLog[3].img \in {"X", "Y"} /\ cbLog[3].ok
    /\ previousMediaHash = "h:" \o cbLog[3].img
    /\ touchscreen = ExpectedBanner(previousTitle)

\* ----------------------------------------------------------------------- C9
\* C9: the callback thread never pushes to the device: it neither takes the
\* device lock nor attempts a write.
C9_OnlyPollPushes ==
    lock # "cb" /\ cbLog = << >>

\* ---------------------------------------------------------------------- C10
\* C10: a failed push of the polling thread does not end runUpdaterTask.
C10_LoopSurvivesFailure ==
    [][((PollPushed("text") \/ PollPushed("key")) /\ ~tickLog'[Len(tickLog')].ok)
        => pc'["poll"] # "join"]_vars

\* ---------------------------------------------------------------------- C11
\* C11: whenever a transport error has ended runUpdaterTask, the main loop
\* gets through the joins of lines 266-270 and back to the enumeration of
\* line 242.
C11_BackToEnumeration ==
    (pc["poll"] = "join") ~> (pc["poll"] = "enumerate")

\* ---------------------------------------------------------------------- C12
\* The pushes of a thread's current call sequence after a failed artwork push
\* at position i of its log: none while the except clause has not pushed yet,
\* and afterwards exactly one, to the key, of the placeholder.
FallbackOnly(log, i, inExcept) ==
    IF inExcept
    THEN Len(log) = i
    ELSE /\ Len(log) = i + 1
         /\ log[i + 1].region = "key"
         /\ log[i + 1].img = "blank"

FailedArt(log, i) ==
    /\ log[i].region = "key"
    /\ log[i].img \in {"X", "Y"}
    /\ ~log[i].ok

\* C12: after a failed artwork push in updateAlbumArt exactly one more push
\* is attempted in that call, the blank placeholder, and nothing more is
\* pushed in that tick (or in that run of the refresh callback).
C12_OneFallbackPush ==
    /\ \A i \in DOMAIN tickLog :
         FailedArt(tickLog, i) => FallbackOnly(tickLog, i, pc["poll"] = "uaa_except")
    /\ \A i \in DOMAIN cbLog :
         FailedArt(cbLog, i) => FallbackOnly(cbLog, i, pc["cb"] = "uaa_except")

\* A tick whose artwork push failed and whose placeholder push went through
\* has ended.
C12_Witness ==
    /\ pc["poll"] = "sleep"
    /\ Len(tickLog) >= 2
    /\ FailedArt(tickLog, Len(tickLog) - 1)
    /\ tickLog[Len(tickLog)].ok
    /\ keyImage = "blank"

\* ---------------------------------------------------------------------- C13
\* C13: recordFavorite appends nothing when the candidate line equals the
\* last recorded line, so the file never holds the same record twice in a
\* row.
C13_NoRepeatedRecord ==
    \A i \in 1 .. (Len(favorites.lines) - 1) :
        favorites.lines[i] # favorites.lines[i + 1]

\* ---------------------------------------------------------------------- C14
\* C14: in every state of the favorites file that holds a data line, the
\* first line is the header "Title,Artist,Album".
C14_HeaderFirst ==
    Len(favorites.lines) >= 1 =>
        favorites.lines[1] = <<84, 105, 116, 108, 101, 44, 65, 114, 116, 105, 115, 116,
                               44, 65, 108, 98, 117, 109, 10>>

\* ---------------------------------------------------------------------- C15
\* C15: a thread is inside a device push exactly while it holds the device
\* lock, so at most one push is in progress at any time and the lock is free
\* again once the push has ended, by returning or by raising; every push
\* attempt of either thread is made by the holder of the lock.
C15_PushesUnderLock ==
    /\ [](\A t \in {"poll", "cb"} :
            lock = t <=> pc[t] \in {"ucp_locked", "blank_locked", "uaa_locked",
                                    "uaa_except", "uaa_blank_locked"})
    /\ [][/\ Len(tickLog') = Len(tickLog) + 1 => lock = "poll"
          /\ Len(cbLog') = Len(cbLog) + 1 => lock = "cb"]_vars

\* One thread is pushing while the other waits at a with statement.
C15_Witness ==
    /\ lock = "poll"
    /\ pc["poll"] = "uaa_locked"
    /\ pc["cb"] = "blank"

\* ---------------------------------------------------------------------- C16
\* A snapshot that does not come from a media session carries no artist.
Degraded(m) == "artist" \notin m.keys

\* C16: every snapshot get_current_media_info returns for a failure of the
\* provider, the absence of a session included, has the empty title and no
\* artwork bytes.
C16_FailureGivesEmptyTitle ==
    \A t \in {"poll", "cb"} :
        Degraded(info[t]) =>
            /\ info[t].title = << >>
            /\ ("thumbnailBytes" \in info[t].keys => info[t].thumbnailBytes \notin {"X", "Y"})

\* C16, amended: get_current_media_info does not raise, the loop goes on
\* with the snapshot; an exception gives a snapshot holding only the title
\* "", and the absence of a session gives the title "---" with the artwork
\* marker "No Image".
C16_DegradedSnapshots ==
    /\ [](\A t \in {"poll", "cb"} :
            Degraded(info[t]) =>
                \/ /\ info[t].keys = {"title"}
                   /\ info[t].title = << >>
                \/ /\ info[t].keys = {"title", "thumbnailBytes"}
                   /\ info[t].title = <<45, 45, 45>>
                   /\ info[t].thumbnailBytes = "No Image")
    /\ [][(pc["poll"] = "sleep" /\ ticks' = ticks + 1) =>
            pc'["poll"] \in {"sleep", "ucp", "uaa"}]_vars

\* The polling thread holds the no-session snapshot while the callback has
\* just fetched the snapshot of a failed query.
C16_Witness ==
    /\ info["poll"].title = <<45, 45, 45>>
    /\ info["poll"].keys = {"title", "thumbnailBytes"}
    /\ pc["cb"] = "ucp"
    /\ info["cb"].keys = {"title"}

\* ---------------------------------------------------------------------- C17
\* C17: runUpdaterTask starts after every open of the deck with the title ""
\* and the fingerprint None; a tick that starts from these with a non-empty
\* title goes into the text push, and when it is through and the snapshot has
\* artwork bytes it has pushed the text, the placeholder and the artwork,
\* whatever the device shows from before.
C17_FreshSyncState ==
    /\ []((pc["poll"] = "sleep" /\ fresh) =>
            (previousTitle = << >> /\ previousMediaHash = "None"))
    /\ [][(/\ pc["poll"] = "sleep"
           /\ ticks' = ticks + 1
           /\ previousTitle = << >>
           /\ info'["poll"].title # << >>) => pc'["poll"] = "ucp"]_vars
    /\ []((/\ pc["poll"] = "sleep"
           /\ ~fresh
           /\ tickLog # << >>
           /\ tickLog[1].region = "text"
           /\ "thumbnailBytes" \in info["poll"].keys
           /\ info["poll"].thumbnailBytes \in {"X", "Y"}) =>
            (/\ Len(tickLog) >= 3
             /\ tickLog[2].region = "key"
             /\ tickLog[3].region = "key"
             /\ tickLog[3].img = info["poll"].thumbnailBytes))

\* After the second open the loop has fetched the media the device still
\* shows from the session before, and goes to push its text again.
C17_Witness ==
    /\ opens = 2
    /\ pc["poll"] = "ucp"
    /\ previousTitle = << >>
    /\ previousMediaHash = "None"
    /\ info["poll"].title = <<65>>
    /\ touchscreen = <<65, 10, 97, 10, 98>>
    /\ info["poll"].thumbnailBytes = "X"
    /\ keyImage = "X"

\* ---------------------------------------------------------------------- C18
\* C18: in a tick that detected a title change, once the text of the new
\* title has been pushed and the blank push has succeeded, the key does not
\* show the artwork of the title before (the one whose fingerprint is still
\* stored at line 231), the new snapshot having another artwork or none.
C18_OldArtGone ==
    (/\ pc["poll"] = "reset"
     /\ Len(tickLog) = 2
     /\ tickLog[1].region = "text" /\ tickLog[1].ok
     /\ tickLog[2].region = "key" /\ tickLog[2].img = "blank" /\ tickLog[2].ok
     /\ previousMediaHash \in {"h:X", "h:Y"}
     /\ ("h:" \o info["poll"].thumbnailBytes) # previousMediaHash)
    => ("h:" \o keyImage) # previousMediaHash

\* ---------------------------------------------------------------------- C19
\* C19: when the polling thread is between two ticks, the refresh callback
\* has made its last push, and every push since the deck was opened has
\* succeeded, the text region shows previousTitle and the key shows the
\* artwork whose fingerprint is previousMediaHash.
C19_DeviceMatchesSyncState ==
    (/\ pc["poll"] = "sleep"
     /\ ~fresh
     /\ steady
     /\ opens = 1
     /\ pc["cb"] = "return"
     /\ \A i \in DOMAIN cbLog : cbLog[i].ok
     /\ previousTitle \in {<<65>>, <<66, 233>>}
     /\ previousMediaHash \in {"h:X", "h:Y"})
    => /\ touchscreen = (IF previousTitle = <<65>> THEN <<65, 10, 97, 10, 98>>
                                                   ELSE <<66, 10, 97, 10, 98>>)
       /\ ("h:" \o keyImage) = previousMediaHash

\* ---------------------------------------------------------------------- C20
\* C20: a key press never ends with an exception leaving key_change_callback,
\* whatever snapshot the press fetched: the callback returns (favorite key)
\* or goes on to its display calls (refresh key).
C20_FavoriteCompletes ==
    [][presses' = presses + 1 => pc'["cb"] \in {"idle", "ucp"}]_vars

====
